---- MODULE Spec2Model ----
(***************************************************************************)
(* Model of src/src/app/page.tsx: the HomePage component of the Trust &    *)
(* Growth Analyzer.  The state is the five useState cells of the page, the *)
(* requests handleSubmit has issued and not yet settled, and what the      *)
(* handlers did to the browser (console, downloads, object URLs).          *)
(*                                                                         *)
(* JavaScript values are records of one shape, so that a parsed response   *)
(* body, a string and null can be compared.  Text (a response body, the    *)
(* exported file) is a sequence of lexical tokens; JSON.parse and          *)
(* JSON.stringify are computed on it.  String contents in the model hold   *)
(* no character that JSON would escape.                                    *)
(***************************************************************************)
EXTENDS Integers, Sequences, FiniteSets, TLC

VARIABLES files, ticker, loading, result, error, inflight, platform, ev,
          logged, download, liveUrls

vars == <<files, ticker, loading, result, error, inflight, platform, ev,
          logged, download, liveUrls>>

(***************************************************************************)
(* Bounds of the model.                                                    *)
(***************************************************************************)
\* the longest list the picker hands over, the over-cap list apart
MaxPick == 2

(***************************************************************************)
(* JavaScript values.                                                      *)
(***************************************************************************)
JV(t, s, n, keys, items) ==
    [t |-> t, s |-> s, n |-> n, keys |-> keys, items |-> items]

JUndef == JV("undef", "", 0, <<>>, <<>>)
JNull == JV("null", "", 0, <<>>, <<>>)
JBool(b) == JV("bool", "", IF b THEN 1 ELSE 0, <<>>, <<>>)
JNum(n) == JV("num", "", n, <<>>, <<>>)
JStr(s) == JV("str", s, 0, <<>>, <<>>)
JArr(items) == JV("arr", "", 0, <<>>, items)
JObj(keys, items) == JV("obj", "", 0, keys, items)

\* ToBoolean: what `!x`, `x || y` and `x && y` test.
Truthy(v) ==
    CASE v.t = "undef" -> FALSE
      [] v.t = "null" -> FALSE
      [] v.t = "bool" -> v.n = 1
      [] v.t = "num" -> v.n # 0
      [] v.t = "str" -> v.s # ""
      [] OTHER -> TRUE

\* v.key on a value that is neither null nor undefined.
Get(v, key) ==
    IF v.t = "obj" /\ \E i \in 1..Len(v.keys) : v.keys[i] = key
    THEN v.items[CHOOSE i \in 1..Len(v.keys) : v.keys[i] = key]
    ELSE JUndef

Digit(d) ==
    CASE d = 0 -> "0" [] d = 1 -> "1" [] d = 2 -> "2" [] d = 3 -> "3"
      [] d = 4 -> "4" [] d = 5 -> "5" [] d = 6 -> "6" [] d = 7 -> "7"
      [] d = 8 -> "8" [] d = 9 -> "9"

RECURSIVE IntToStr(_)
IntToStr(n) ==
    IF n < 10 THEN Digit(n) ELSE IntToStr(n \div 10) \o Digit(n % 10)

\* ToString: what a template literal and `new Error(x)` apply to x.
RECURSIVE ToStr(_)
RECURSIVE JoinItems(_)
JoinItems(items) ==
    IF Len(items) = 0 THEN ""
    ELSE LET h == IF Head(items).t \in {"null", "undef"} THEN ""
                  ELSE ToStr(Head(items))
         IN  IF Len(items) = 1 THEN h ELSE h \o "," \o JoinItems(Tail(items))
ToStr(v) ==
    CASE v.t = "undef" -> "undefined"
      [] v.t = "null" -> "null"
      [] v.t = "bool" -> IF v.n = 1 THEN "true" ELSE "false"
      [] v.t = "num" -> IntToStr(v.n)
      [] v.t = "str" -> v.s
      [] v.t = "arr" -> JoinItems(v.items)
      [] OTHER -> "[object Object]"

(***************************************************************************)
(* Text as tokens.                                                         *)
(***************************************************************************)
Tok(k, s, n) == [k |-> k, s |-> s, n |-> n]
P(c) == Tok("punct", c, 0)
StrTok(s) == Tok("str", s, 0)
NumTok(n) == Tok("num", "", n)
LitTok(s) == Tok("lit", s, 0)
\* a newline followed by n spaces (s = "\n") or n spaces alone (s = "")
WsTok(s, n) == Tok("ws", s, n)
\* characters that start no JSON token
RawTok(s) == Tok("raw", s, 0)

RECURSIVE Spaces(_)
Spaces(n) == IF n = 0 THEN "" ELSE " " \o Spaces(n - 1)

RenderTok(tk) ==
    CASE tk.k = "str" -> "\"" \o tk.s \o "\""
      [] tk.k = "num" -> IntToStr(tk.n)
      [] tk.k = "ws" -> tk.s \o Spaces(tk.n)
      [] OTHER -> tk.s

\* the characters of a text, as one string
RECURSIVE Render(_)
Render(toks) ==
    IF Len(toks) = 0 THEN "" ELSE RenderTok(Head(toks)) \o Render(Tail(toks))

(***************************************************************************)
(* JSON.stringify(value, null, gap), gap = 0 for the one-argument call.    *)
(***************************************************************************)
Newline(gap, depth) == IF gap = 0 THEN <<>> ELSE <<WsTok("\n", gap * depth)>>

RECURSIVE Stringify(_, _, _)
RECURSIVE StringifyItems(_, _, _)
RECURSIVE StringifyMembers(_, _, _, _)
StringifyItems(items, gap, depth) ==
    IF Len(items) = 0 THEN <<>>
    ELSE Newline(gap, depth) \o Stringify(Head(items), gap, depth)
         \o (IF Len(items) = 1 THEN <<>> ELSE <<P(",")>>)
         \o StringifyItems(Tail(items), gap, depth)
StringifyMembers(keys, items, gap, depth) ==
    IF Len(keys) = 0 THEN <<>>
    ELSE Newline(gap, depth) \o <<StrTok(Head(keys)), P(":")>>
         \o (IF gap = 0 THEN <<>> ELSE <<WsTok("", 1)>>)
         \o Stringify(Head(items), gap, depth)
         \o (IF Len(keys) = 1 THEN <<>> ELSE <<P(",")>>)
         \o StringifyMembers(Tail(keys), Tail(items), gap, depth)
Stringify(v, gap, depth) ==
    CASE v.t = "null" -> <<LitTok("null")>>
      [] v.t = "bool" -> <<LitTok(IF v.n = 1 THEN "true" ELSE "false")>>
      [] v.t = "num" -> <<NumTok(v.n)>>
      [] v.t = "str" -> <<StrTok(v.s)>>
      [] v.t = "arr" ->
            IF Len(v.items) = 0 THEN <<P("["), P("]")>>
            ELSE <<P("[")>> \o StringifyItems(v.items, gap, depth + 1)
                 \o Newline(gap, depth) \o <<P("]")>>
      [] OTHER ->
            IF Len(v.keys) = 0 THEN <<P("{"), P("}")>>
            ELSE <<P("{")>> \o StringifyMembers(v.keys, v.items, gap, depth + 1)
                 \o Newline(gap, depth) \o <<P("}")>>

(***************************************************************************)
(* JSON.parse(text): [ok, v, rest].                                        *)
(***************************************************************************)
RECURSIVE SkipWs(_)
SkipWs(toks) ==
    IF Len(toks) > 0 /\ Head(toks).k = "ws" THEN SkipWs(Tail(toks)) ELSE toks

ParseFail == [ok |-> FALSE, v |-> JUndef, rest |-> <<>>]
ParseOk(v, rest) == [ok |-> TRUE, v |-> v, rest |-> rest]

IsP(toks, c) == Len(toks) > 0 /\ Head(toks) = P(c)

\* obj[key] = v while parsing: a repeated key keeps its place, last value
ObjPut(keys, items, key, v) ==
    IF \E i \in 1..Len(keys) : keys[i] = key
    THEN LET i == CHOOSE j \in 1..Len(keys) : keys[j] = key
         IN  <<keys, [items EXCEPT ![i] = v]>>
    ELSE <<Append(keys, key), Append(items, v)>>

RECURSIVE ParseValue(_)
RECURSIVE ParseElements(_, _)
RECURSIVE ParseMembers(_, _, _)
\* after "[" or ",": a value, then "," or "]"
ParseElements(toks, acc) ==
    LET r == ParseValue(toks)
        t == SkipWs(r.rest)
    IN  IF ~r.ok THEN ParseFail
        ELSE IF IsP(t, ",") THEN ParseElements(Tail(t), Append(acc, r.v))
        ELSE IF IsP(t, "]") THEN ParseOk(JArr(Append(acc, r.v)), Tail(t))
        ELSE ParseFail
\* after "{" or ",": a string key, ":", a value, then "," or "}"
ParseMembers(toks, keys, items) ==
    LET t0 == SkipWs(toks)
    IN  IF Len(t0) = 0 \/ Head(t0).k # "str" THEN ParseFail
        ELSE LET t1 == SkipWs(Tail(t0))
             IN  IF ~IsP(t1, ":") THEN ParseFail
                 ELSE LET r == ParseValue(Tail(t1))
                          t2 == SkipWs(r.rest)
                          o == ObjPut(keys, items, Head(t0).s, r.v)
                      IN  IF ~r.ok THEN ParseFail
                          ELSE IF IsP(t2, ",")
                               THEN ParseMembers(Tail(t2), o[1], o[2])
                          ELSE IF IsP(t2, "}")
                               THEN ParseOk(JObj(o[1], o[2]), Tail(t2))
                          ELSE ParseFail
ParseValue(toks) ==
    LET t == SkipWs(toks)
    IN  IF Len(t) = 0 THEN ParseFail
        ELSE LET h == Head(t)
             IN  CASE h.k = "str" -> ParseOk(JStr(h.s), Tail(t))
                   [] h.k = "num" -> ParseOk(JNum(h.n), Tail(t))
                   [] h.k = "lit" ->
                        IF h.s = "null" THEN ParseOk(JNull, Tail(t))
                        ELSE IF h.s = "true" THEN ParseOk(JBool(TRUE), Tail(t))
                        ELSE IF h.s = "false" THEN ParseOk(JBool(FALSE), Tail(t))
                        ELSE ParseFail
                   [] h = P("[") ->
                        IF IsP(SkipWs(Tail(t)), "]")
                        THEN ParseOk(JArr(<<>>), Tail(SkipWs(Tail(t))))
                        ELSE ParseElements(Tail(t), <<>>)
                   [] h = P("{") ->
                        IF IsP(SkipWs(Tail(t)), "}")
                        THEN ParseOk(JObj(<<>>, <<>>), Tail(SkipWs(Tail(t))))
                        ELSE ParseMembers(Tail(t), <<>>, <<>>)
                   [] OTHER -> ParseFail

\* the whole text must be one value
JsonParse(toks) ==
    LET r == ParseValue(toks)
    IN  IF r.ok /\ Len(SkipWs(r.rest)) = 0 THEN r ELSE ParseFail

(***************************************************************************)
(* The browser: Error objects, the Response body, the messages of the      *)
(* exceptions the platform throws.                                         *)
(***************************************************************************)
Platforms == {"chromium", "gecko"}

\* new Error(x): message is ToString(x)
NewError(x) == JObj(<<"message">>, <<JStr(ToStr(x))>>)

Return(v) == [threw |-> FALSE, v |-> v]
Throw(e) == [threw |-> TRUE, v |-> e]

\* TypeError of a second read of a body that was read before
BodyUsedError(pf) ==
    NewError(JStr(IF pf = "chromium"
                  THEN "Failed to execute 'text' on 'Response': body stream already read"
                  ELSE "Response.text: Body has already been consumed."))

\* SyntaxError of JSON.parse
JsonSyntaxError(pf, toks) ==
    NewError(JStr(IF pf = "chromium"
                  THEN (IF Len(toks) = 0 THEN "Unexpected end of JSON input"
                        ELSE "Unexpected token in JSON")
                  ELSE (IF Len(toks) = 0
                        THEN "JSON.parse: unexpected end of data"
                        ELSE "JSON.parse: unexpected character")))

\* TypeError of a failed fetch or of a body stream that breaks while read
NetworkError(pf) ==
    NewError(JStr(IF pf = "chromium" THEN "Failed to fetch"
                  ELSE "NetworkError when attempting to fetch resource."))

\* A response: status, the bytes of the body, whether the body is a stream
\* (a network response) or null (a synthesized response without body), and
\* whether the stream breaks before its end.
Response(status, body, stream, broken) ==
    [status |-> status, body |-> body, stream |-> stream, broken |-> broken]

NoResponse == Response(0, <<>>, FALSE, FALSE)

\* res.ok
ResOk(res) == res.status \in 200..299

\* await res.json(), on a response whose body was (bodyUsed) or was not read
ResJson(res, bodyUsed, pf) ==
    IF res.stream /\ bodyUsed THEN Throw(BodyUsedError(pf))
    ELSE IF res.broken THEN Throw(NetworkError(pf))
    ELSE LET r == JsonParse(res.body)
         IN  IF r.ok THEN Return(r.v) ELSE Throw(JsonSyntaxError(pf, res.body))

\* await res.text(), likewise
ResText(res, bodyUsed, pf) ==
    IF res.stream /\ bodyUsed THEN Throw(BodyUsedError(pf))
    ELSE IF res.broken THEN Throw(NetworkError(pf))
    ELSE Return(JStr(Render(res.body)))

(***************************************************************************)
(* handleSubmit, after the response: lines 48-64.                          *)
(***************************************************************************)
VALIDATION == "Please select at least one PDF file."
UNKNOWN == "Unknown error"

\* a variant of line 53 that drops `errJson.error ||`
ErrMsgOfJsonStringified(errJson) == JStr(Render(Stringify(errJson, 0, 0)))

\* line 53: errJson.error || JSON.stringify(errJson)
ErrMsgOfJson(errJson) ==
    IF Truthy(Get(errJson, "error")) THEN Get(errJson, "error")
    ELSE JStr(Render(Stringify(errJson, 0, 0)))

\* lines 50-58: the exception that leaves the `if (!res.ok)` block
NotOkThrown(res, pf) ==
    LET errMsg == JStr("HTTP " \o IntToStr(res.status))
        errJson == ResJson(res, FALSE, pf)
        \* errJson.error throws when errJson is null
        tryThrew == errJson.threw \/ errJson.v.t = "null"
        text == ResText(res, TRUE, pf)
    IN  IF ~tryThrew THEN NewError(ErrMsgOfJson(errJson.v))
        ELSE IF text.threw THEN text.v
        ELSE NewError(IF Truthy(text.v) THEN text.v ELSE errMsg)

\* lines 48-61: the handler reaches setResult(v), or throws v
Settled(res, pf) ==
    IF ~ResOk(res) THEN Throw(NotOkThrown(res, pf))
    ELSE ResJson(res, FALSE, pf)

\* a variant of line 64 that drops `|| 'Unknown error'`
SurfacedMessageOnly(e) == Get(e, "message")

\* line 64: e.message || 'Unknown error'
Surfaced(e) ==
    IF Truthy(Get(e, "message")) THEN Get(e, "message") ELSE JStr(UNKNOWN)

(***************************************************************************)
(* Inputs.                                                                 *)
(***************************************************************************)
Tickers == {"VOLV-B", "HM-B"}

\* line 103: "Upload up to 5 Annual Report PDFs"
AdvisoryCap == 5

File(i) == JStr("report" \o IntToStr(i) \o ".pdf")

\* what the file picker can hand over: the empty list, the first n files
\* in either order, and one list longer than the advisory cap
Selections ==
    {[i \in 1..n |-> File(i)] : n \in 0..MaxPick}
    \cup {[i \in 1..n |-> File(MaxPick + 1 - i)] : n \in 0..MaxPick}
    \cup {[i \in 1..(AdvisoryCap + 1) |-> File(i)]}

Statuses == {200, 404, 500}

AnalysisKeys ==
    <<"ticker", "trustScore", "trustJustification", "trustRecommendations",
      "growthScore", "growthJustification", "growthRecommendations",
      "summary", "runId">>

AnalysisResult(tk, ts, tj, tr, gs, gj, gr, sm, id) ==
    JObj(AnalysisKeys,
         <<JStr(tk), JNum(ts), JStr(tj), JArr(tr), JNum(gs), JStr(gj),
           JArr(gr), JStr(sm), JStr(id)>>)

Analysis1 ==
    AnalysisResult("VOLV-B", 72, "clear reporting", <<JStr("publish audit")>>,
                   55, "steady", <<>>, "solid", "run-1")
Analysis2 ==
    AnalysisResult("HM-B", 100, "open", <<>>, 0, "flat",
                   <<JStr("new markets"), JStr("cut costs")>>, "mixed", "run-2")

ErrorBody(v) == Stringify(JObj(<<"error">>, <<v>>), 0, 0)

Bodies ==
    { <<>>,
      <<RawTok("server down")>>,
      ErrorBody(JStr("boom")),
      ErrorBody(JStr("")),
      ErrorBody(JNum(503)),
      Stringify(JObj(<<"detail">>, <<JStr("not found")>>), 0, 0),
      <<LitTok("null")>>,
      Stringify(Analysis1, 0, 0),
      Stringify(Analysis2, 2, 0) }

Responses ==
    {Response(st, b, TRUE, FALSE) : st \in Statuses, b \in Bodies}
    \cup {Response(st, <<>>, FALSE, FALSE) : st \in Statuses}
    \cup {Response(st, <<>>, TRUE, TRUE) : st \in Statuses}

\* what fetch rejects with: the platform's TypeError, or an exception
\* that carries no message
Rejections(pf) == {NetworkError(pf), NewError(JStr(""))}

\* Settled, tabulated over the answers and the platforms
Outcome ==
    [res \in Responses |-> [pf \in Platforms |-> Settled(res, pf)]]

(***************************************************************************)
(* State.                                                                  *)
(***************************************************************************)
NoDownload == [filename |-> "", content |-> <<>>]

Init ==
    /\ files = JNull
    /\ ticker = "VOLV-B"
    /\ loading = FALSE
    /\ result = JNull
    /\ error = JNull
    /\ inflight = <<>>
    /\ platform \in Platforms
    /\ ev = "mount"
    /\ logged = JUndef
    /\ download = NoDownload
    /\ liveUrls = 0

Remove(s, i) == SubSeq(s, 1, i - 1) \o SubSeq(s, i + 1, Len(s))

(***************************************************************************)
(* Handlers.                                                               *)
(***************************************************************************)
\* a variant of line 25 that adds the picked files to the ones held
PickedMerged(old, sel) == JArr(old.items \o sel)

\* line 25: setFiles(e.target.files), whatever was held before
Picked(old, sel) == JArr(sel)

\* lines 24-26, the picker handing over the list sel
FileChange(sel) ==
    /\ files' = Picked(files, sel)
    /\ ev' = "handleFileChange"
    /\ logged' = JUndef
    /\ download' = NoDownload
    /\ UNCHANGED <<ticker, loading, result, error, inflight, platform,
                   liveUrls>>

\* lines 24-26
HandleFileChange == \E sel \in Selections : FileChange(sel)

\* a variant of line 94 that drops the requests in flight
SetTickerAborts ==
    \E t \in Tickers :
        /\ ticker' = t
        /\ ev' = "setTicker"
        /\ logged' = JUndef
        /\ download' = NoDownload
        /\ inflight' = <<>>
        /\ loading' = FALSE
        /\ UNCHANGED <<files, result, error, platform, liveUrls>>

\* line 94
SetTicker ==
    \E t \in Tickers :
        /\ ticker' = t
        /\ ev' = "setTicker"
        /\ logged' = JUndef
        /\ download' = NoDownload
        /\ UNCHANGED <<files, loading, result, error, inflight, platform,
                       liveUrls>>

\* a variant of line 31 that drops `|| files.length === 0`
NoFilesNullOnly(fs) == ~Truthy(fs)

\* line 31: !files || files.length === 0
NoFiles(fs) == ~Truthy(fs) \/ Len(fs.items) = 0

\* a variant of lines 39-41 that appends no file beyond the advisory cap
BuildFormCapped(tk, fs) ==
    <<[name |-> "ticker", value |-> JStr(tk)]>>
    \o [i \in 1..(IF Len(fs.items) < AdvisoryCap THEN Len(fs.items)
                  ELSE AdvisoryCap) |->
           [name |-> "files", value |-> fs.items[i]]]

\* lines 39-41
BuildForm(tk, fs) ==
    <<[name |-> "ticker", value |-> JStr(tk)]>>
    \o [i \in 1..Len(fs.items) |-> [name |-> "files", value |-> fs.items[i]]]

\* lines 44-47: the POST, awaiting its response
Fetch(form) == [form |-> form, phase |-> "fetch", res |-> NoResponse]

\* a variant of lines 35-37 without setError(null)
StartLoadingKeepsError ==
    /\ loading' = TRUE
    /\ result' = JNull
    /\ UNCHANGED error

\* a variant of lines 35-37 without setResult(null)
StartLoadingKeepsResult ==
    /\ loading' = TRUE
    /\ error' = JNull
    /\ UNCHANGED result

\* lines 35-37
StartLoading ==
    /\ loading' = TRUE
    /\ error' = JNull
    /\ result' = JNull

\* a variant of lines 32-33 that also calls setResult(null)
RejectClearsResult ==
    /\ error' = JStr(VALIDATION)
    /\ result' = JNull
    /\ UNCHANGED <<loading, inflight>>

\* lines 32-33: the early return
Reject ==
    /\ error' = JStr(VALIDATION)
    /\ UNCHANGED <<loading, result, inflight>>

\* lines 29-47: handleSubmit up to the await of fetch
HandleSubmit ==
    /\ ev' = "handleSubmit"
    /\ logged' = JUndef
    /\ download' = NoDownload
    /\ IF NoFiles(files)
       THEN Reject
       ELSE /\ StartLoading
            /\ inflight' = Append(inflight, Fetch(BuildForm(ticker, files)))
    /\ UNCHANGED <<files, ticker, platform, liveUrls>>

\* line 132: the submit control is disabled while loading
Submit == ~loading /\ HandleSubmit

\* a variant of lines 62-64 without console.error
CatchSilent(e) ==
    /\ logged' = JUndef
    /\ error' = Surfaced(e)
    /\ UNCHANGED result

\* lines 62-64
Catch(e) ==
    /\ logged' = e
    /\ error' = Surfaced(e)
    /\ UNCHANGED result

\* a variant of lines 65-67 that sets the flag again
FinallyStillLoading == loading' = TRUE

\* lines 65-67
Finally == loading' = FALSE

\* lines 61 and 65-67: the try block ends with setResult(v)
SettleResult(v) ==
    /\ result' = v
    /\ logged' = JUndef
    /\ UNCHANGED error
    /\ Finally

\* a variant with setLoading(false) at the end of the try block, which a
\* throw skips
SettleThrownNoFinally(e) == Catch(e) /\ UNCHANGED loading

\* lines 62-67: the try block throws e
SettleThrown(e) == Catch(e) /\ Finally

\* line 44 rejects: lines 62-67
FetchRejects ==
    \E i \in 1..Len(inflight) :
        /\ inflight[i].phase = "fetch"
        /\ \E e \in Rejections(platform) : SettleThrown(e)
        /\ inflight' = Remove(inflight, i)
        /\ ev' = "fetchRejected"
        /\ download' = NoDownload
        /\ UNCHANGED <<files, ticker, platform, liveUrls>>

\* line 44 resolves request i with res: the handler goes on to read the body
Resolve(i, res) ==
    /\ inflight[i].phase = "fetch"
    /\ inflight' = [inflight EXCEPT ![i].phase = "body", ![i].res = res]
    /\ ev' = "fetchResolved"
    /\ logged' = JUndef
    /\ download' = NoDownload
    /\ UNCHANGED <<files, ticker, loading, result, error, platform, liveUrls>>

\* line 44 resolves
FetchResolves ==
    \E i \in 1..Len(inflight) : \E res \in Responses : Resolve(i, res)

\* lines 48-67, once the body is read
BodySettles ==
    \E i \in 1..Len(inflight) :
        /\ inflight[i].phase = "body"
        /\ LET c == Outcome[inflight[i].res][platform]
           IN  IF c.threw THEN SettleThrown(c.v) ELSE SettleResult(c.v)
        /\ inflight' = Remove(inflight, i)
        /\ ev' = "bodySettled"
        /\ download' = NoDownload
        /\ UNCHANGED <<files, ticker, platform, liveUrls>>

\* a variant of line 78 that names the file <ticker>_<runId>.json
FilenameNoInfix(r) ==
    ToStr(Get(r, "ticker")) \o "_" \o ToStr(Get(r, "runId")) \o ".json"

\* line 78
Filename(r) ==
    ToStr(Get(r, "ticker")) \o "_analysis_" \o ToStr(Get(r, "runId")) \o ".json"

\* line 75: URL.createObjectURL, on the number of object URLs alive
CreateObjectURL(n) == n + 1

\* a variant of line 80 that releases nothing
RevokeSkipped(n) == n

\* line 80: URL.revokeObjectURL
RevokeObjectURL(n) == n - 1

\* lines 71-81
HandleExportJson ==
    /\ ev' = "handleExportJson"
    /\ logged' = JUndef
    /\ IF ~Truthy(result)
       THEN download' = NoDownload /\ UNCHANGED liveUrls
       ELSE /\ download' = [filename |-> Filename(result),
                            content |-> Stringify(result, 2, 0)]
            /\ liveUrls' = RevokeObjectURL(CreateObjectURL(liveUrls))
    /\ UNCHANGED <<files, ticker, loading, result, error, inflight, platform>>

Next ==
    \/ HandleFileChange
    \/ SetTicker
    \/ Submit
    \/ FetchRejects
    \/ FetchResolves
    \/ BodySettles
    \/ HandleExportJson

Spec == Init /\ [][Next]_vars

\* the network answers or fails every request, and a body that is being
\* read comes to its end
SpecLive ==
    Spec /\ WF_vars(FetchRejects \/ FetchResolves) /\ WF_vars(BodySettles)

(***************************************************************************)
(* Submits that pass the disabled control (form.requestSubmit(), a second  *)
(* event before the render): handleSubmit itself does not test loading.    *)
(* The inputs are fewer, the requests in flight at once are bounded.       *)
(***************************************************************************)
MaxInFlight == 2

ReentrantSelections == {<<>>, <<File(1)>>}

ReentrantResponses ==
    { Response(200, Stringify(Analysis1, 0, 0), TRUE, FALSE),
      Response(200, Stringify(Analysis2, 2, 0), TRUE, FALSE),
      Response(500, ErrorBody(JStr("boom")), TRUE, FALSE),
      Response(404, <<>>, FALSE, FALSE) }

\* lines 24-26
PickAgain == \E sel \in ReentrantSelections : FileChange(sel)

\* line 87: onSubmit, whatever loading is
Resubmit == Len(inflight) < MaxInFlight /\ HandleSubmit

\* line 44 resolves
ResolvesAgain ==
    \E i \in 1..Len(inflight) : \E res \in ReentrantResponses : Resolve(i, res)

NextReentrant ==
    \/ PickAgain
    \/ SetTicker
    \/ Resubmit
    \/ FetchRejects
    \/ ResolvesAgain
    \/ BodySettles
    \/ HandleExportJson

SpecReentrant == Init /\ [][NextReentrant]_vars

(***************************************************************************)
(* Properties.                                                             *)
(***************************************************************************)
\* the step settles request i by reading its response's body
BodySettled(i) ==
    /\ ev' = "bodySettled"
    /\ inflight[i].phase = "body"
    /\ inflight' = Remove(inflight, i)

\* the step settles request i by the rejection of fetch
FetchRejected(i) ==
    /\ ev' = "fetchRejected"
    /\ inflight[i].phase = "fetch"
    /\ inflight' = Remove(inflight, i)

Is2xx(res) == 200 <= res.status /\ res.status <= 299

\* C1: result and error are never both non-null.
ResultErrorExclusive == ~(result # JNull /\ error # JNull)

\* C2: a submit while the selection is null or empty issues no request and
\* leaves error equal to the validation message.
EmptySubmitOnlyValidates ==
    [][(ev' = "handleSubmit" /\ (files = JNull \/ files = JArr(<<>>)))
         => (/\ error' = JStr("Please select at least one PDF file.")
             /\ inflight' = inflight)]_vars

\* C2 witness: an empty FileList was submitted and rejected.
EmptySubmitRejected ==
    /\ ev = "handleSubmit"
    /\ files = JArr(<<>>)
    /\ error = JStr("Please select at least one PDF file.")
    /\ inflight = <<>>

\* the payload the claim C3 describes: the identifier, then every selected
\* file in selection order
IsPayload(form, tk, fs) ==
    /\ Len(form) = Len(fs.items) + 1
    /\ form[1] = [name |-> "ticker", value |-> JStr(tk)]
    /\ \A i \in 1..Len(fs.items) :
          form[i + 1] = [name |-> "files", value |-> fs.items[i]]

\* C3: a submit of a non-empty selection issues exactly one request, whose
\* payload holds the identifier and every selected file in order; no other
\* step issues a request.
OneRequestPerSubmit ==
    [][/\ (ev' = "handleSubmit" /\ files # JNull /\ files # JArr(<<>>))
            => (/\ Len(inflight') = Len(inflight) + 1
                /\ SubSeq(inflight', 1, Len(inflight)) = inflight
                /\ inflight'[Len(inflight')].phase = "fetch"
                /\ IsPayload(inflight'[Len(inflight')].form, ticker, files))
       /\ (Len(inflight') > Len(inflight)) => ev' = "handleSubmit"]_vars

\* C3 witness: a list longer than the advisory cap was submitted for HM-B.
OverCapSubmitted ==
    /\ ev = "handleSubmit"
    /\ ticker = "HM-B"
    /\ Len(files.items) > AdvisoryCap
    /\ Len(inflight) = 1
    /\ Len(inflight[1].form) = Len(files.items) + 1

\* C4: every submission in flight eventually leaves it.
LoadingEnds == loading ~> ~loading

\* C4 witness: the request was settled by the exception that res.text()
\* throws inside the error-parsing fallback.
SettledByFallbackThrow ==
    /\ ev = "bodySettled"
    /\ ~loading
    /\ logged = BodyUsedError(platform)

\* C5: loading is true exactly while a request is outstanding: it is set by
\* the submit that issues the request and reset by the step that settles it.
LoadingIffOutstanding ==
    /\ loading <=> Len(inflight) > 0
    /\ [][/\ loading' <=> Len(inflight') > 0
          /\ (~loading /\ loading') => ev' = "handleSubmit"
          /\ (loading /\ ~loading')
                => (/\ ev' \in {"fetchRejected", "bodySettled"}
                    /\ Len(inflight') = Len(inflight) - 1)]_vars

\* C5 witness: the control is enabled again after a rejected fetch.
ReenabledAfterFailure ==
    /\ ev = "fetchRejected"
    /\ ~loading
    /\ inflight = <<>>
    /\ error # JNull

\* C6: a 2xx answer with a well-formed AnalysisResult body makes result
\* that body, error null and loading false.
SuccessShowsBody ==
    [][\A i \in 1..Len(inflight) : \A a \in {Analysis1, Analysis2} :
          (/\ BodySettled(i)
           /\ Is2xx(inflight[i].res)
           /\ ~inflight[i].res.broken
           /\ inflight[i].res.body \in {Stringify(a, 0, 0), Stringify(a, 2, 0)})
            => (result' = a /\ error' = JNull /\ ~loading')]_vars

\* C6 witness: the second analysis is shown.
AnalysisShown ==
    /\ ev = "bodySettled"
    /\ result = Analysis2
    /\ Get(result, "growthRecommendations")
         = JArr(<<JStr("new markets"), JStr("cut costs")>>)
    /\ error = JNull
    /\ ~loading

\* the body {"error":"<msg>"}
ErrorFieldBody(msg) ==
    <<P("{"), StrTok("error"), P(":"), StrTok(msg), P("}")>>

\* C7: a non-2xx answer whose JSON body carries a non-empty error string
\* surfaces exactly that string, and result is null.
ErrorFieldSurfaced ==
    [][\A i \in 1..Len(inflight) :
          (/\ BodySettled(i)
           /\ ~Is2xx(inflight[i].res)
           /\ ~inflight[i].res.broken
           /\ inflight[i].res.body = ErrorFieldBody("boom"))
            => (error' = JStr("boom") /\ result' = JNull)]_vars

\* C7 witness: "boom" is surfaced.
BoomSurfaced ==
    /\ ev = "bodySettled"
    /\ error = JStr("boom")
    /\ result = JNull
    /\ ~loading

\* C8: a non-2xx answer with a non-empty body that is not JSON surfaces
\* exactly the raw body text.
RawTextSurfaced ==
    [][\A i \in 1..Len(inflight) :
          (/\ BodySettled(i)
           /\ ~Is2xx(inflight[i].res)
           /\ ~inflight[i].res.broken
           /\ inflight[i].res.body = <<RawTok("server down")>>)
            => error' = JStr("server down")]_vars

\* C9: a non-2xx answer of status S with an empty body surfaces "HTTP S".
GenericStatusSurfaced ==
    [][\A i \in 1..Len(inflight) :
          (/\ BodySettled(i)
           /\ ~Is2xx(inflight[i].res)
           /\ ~inflight[i].res.broken
           /\ inflight[i].res.body = <<>>)
            => error' = JStr("HTTP " \o IntToStr(inflight[i].res.status))]_vars

\* the message of exception e, or the generic one
MessageOrUnknown(e) ==
    IF Get(e, "message") # JStr("") THEN Get(e, "message")
    ELSE JStr("Unknown error")

\* C10: a transport failure (fetch rejects, or the body of a 2xx answer
\* cannot be read or parsed) is caught, surfaces the exception's message or
\* "Unknown error", leaves result null and resets loading.
TransportFailureSurfaced ==
    [][\A i \in 1..Len(inflight) :
          /\ FetchRejected(i)
               => (/\ logged' \in Rejections(platform)
                   /\ error' = MessageOrUnknown(logged')
                   /\ result' = JNull
                   /\ ~loading')
          /\ (/\ BodySettled(i)
              /\ Is2xx(inflight[i].res)
              /\ \/ inflight[i].res.broken
                 \/ inflight[i].res.body \in {<<>>, <<RawTok("server down")>>})
               => (/\ logged' = IF inflight[i].res.broken
                                THEN NetworkError(platform)
                                ELSE JsonSyntaxError(platform,
                                                     inflight[i].res.body)
                   /\ error' = MessageOrUnknown(logged')
                   /\ result' = JNull
                   /\ ~loading')]_vars

\* C10 witness: fetch rejected with an exception that has no message.
UnknownErrorSurfaced ==
    /\ ev = "fetchRejected"
    /\ logged = NewError(JStr(""))
    /\ error = JStr("Unknown error")
    /\ result = JNull
    /\ ~loading

\* C12: an export issues no request and changes neither result, error,
\* loading nor the selection; with result null it triggers nothing, with a
\* result it triggers one download; no object URL stays unreleased.
ExportIsLocal ==
    /\ liveUrls = 0
    /\ [][/\ liveUrls' = 0
          /\ ev' = "handleExportJson"
               => (/\ UNCHANGED <<files, ticker, loading, result, error,
                                  inflight>>
                   /\ logged' = JUndef
                   /\ (result = JNull) => download' = NoDownload
                   /\ (result # JNull) => download' # NoDownload)]_vars

\* C12 witness: a result was exported while nothing else changed.
ExportedOnce ==
    /\ ev = "handleExportJson"
    /\ result # JNull
    /\ download # NoDownload
    /\ liveUrls = 0

\* the file name the claim C13 gives for result r
ExportName(r) ==
    Get(r, "ticker").s \o "_analysis_" \o Get(r, "runId").s \o ".json"

\* C13: the export of an AnalysisResult r is named
\* <r.ticker>_analysis_<r.runId>.json and its content parses back to r.
ExportRoundTrips ==
    [][(ev' = "handleExportJson" /\ result \in {Analysis1, Analysis2})
         => (/\ download'.filename = ExportName(result)
             /\ download'.filename
                  \in {"VOLV-B_analysis_run-1.json", "HM-B_analysis_run-2.json"}
             /\ JsonParse(download'.content).ok
             /\ JsonParse(download'.content).v = result)]_vars

\* C13 witness: the first analysis was exported, indented.
AnalysisExported ==
    /\ ev = "handleExportJson"
    /\ result = Analysis1
    /\ download.filename = "VOLV-B_analysis_run-1.json"
    /\ Head(download.content) = P("{")
    /\ download.content[2] = WsTok("\n", 2)

\* C14: a file pick makes the selection the picker's list and a company
\* change makes the identifier one of the two values; neither changes
\* anything else nor does I/O, also while a request is in flight.
SelectionOnly ==
    [][/\ ev' = "handleFileChange"
            => (/\ files'.t = "arr"
                /\ files'.items \in Selections
                /\ UNCHANGED <<ticker, loading, result, error, inflight,
                               liveUrls>>
                /\ download' = NoDownload
                /\ logged' = JUndef)
       /\ ev' = "setTicker"
            => (/\ ticker' \in {"VOLV-B", "HM-B"}
                /\ UNCHANGED <<files, loading, result, error, inflight,
                               liveUrls>>
                /\ download' = NoDownload
                /\ logged' = JUndef)]_vars

\* C14 witness: an empty selection was accepted while a request is in flight.
EmptyPickInFlight ==
    /\ ev = "handleFileChange"
    /\ files = JArr(<<>>)
    /\ loading
    /\ Len(inflight) = 1

\* C15: every step that surfaces an error also writes a log entry.
EveryErrorLogged ==
    [][(ev' \in {"handleSubmit", "fetchRejected", "bodySettled"}
        /\ error' # JNull)
         => logged' # JUndef]_vars

\* C15, amended: every error surfaced when a request settles is logged in
\* the same step, with the exception whose message is surfaced; the
\* validation error is surfaced without a log entry.
RequestErrorsLogged ==
    [][/\ (ev' \in {"fetchRejected", "bodySettled"} /\ error' # JNull)
            => (/\ logged' # JUndef
                /\ error' = IF Get(logged', "message") # JStr("")
                            THEN Get(logged', "message")
                            ELSE JStr("Unknown error"))
       /\ (ev' = "handleSubmit" /\ error' # JNull) => logged' = JUndef]_vars

\* C15 witness: a service-reported error was surfaced and logged.
ServiceErrorLogged ==
    /\ ev = "bodySettled"
    /\ error = JStr("boom")
    /\ logged = NewError(JStr("boom"))

\* C16: a submit rejected for its empty selection changes only error.
RejectedSubmitFrame ==
    [][(ev' = "handleSubmit" /\ (files = JNull \/ files = JArr(<<>>)))
         => (/\ UNCHANGED <<loading, result, files, ticker, inflight>>
             /\ ~loading')]_vars

\* C16 witness: the result shown before the rejected submit is still shown.
ResultKeptAfterReject ==
    /\ ev = "handleSubmit"
    /\ error = JStr("Please select at least one PDF file.")
    /\ result = Analysis1
    /\ ~loading

\* C17: while loading, result and error are both null.
LoadingShowsNothing == loading => (result = JNull /\ error = JNull)

\* C17 witness: the answer has arrived and its body is being read.
LoadingWhileBodyRead ==
    /\ loading
    /\ ev = "fetchResolved"
    /\ inflight[1].phase = "body"
    /\ result = JNull
    /\ error = JNull

\* C18: a file pick or company change made while a request is in flight
\* leaves the request, its payload, result and error as they were, and what
\* the request sets when it settles is decided by its response alone.
PayloadIsSnapshot ==
    [][/\ (ev' \in {"handleFileChange", "setTicker"} /\ Len(inflight) > 0)
            => UNCHANGED <<inflight, loading, result, error>>
       /\ \A i \in 1..Len(inflight) :
             BodySettled(i)
               => LET c == Outcome[inflight[i].res][platform]
                  IN  IF c.threw
                      THEN error' = Surfaced(c.v) /\ result' = result
                      ELSE result' = c.v /\ error' = error]_vars

\* C18 witness: the selection was changed after the submit, and the request
\* in flight still carries the files and the identifier of the submit.
SelectionMovedOn ==
    /\ loading
    /\ Len(inflight) = 1
    /\ inflight[1].form[1].value # JStr(ticker)
    /\ files = JArr(<<>>)
    /\ ~IsPayload(inflight[1].form, ticker, files)
    /\ Len(inflight[1].form) > 1

\* C11: when a request settles right after another one that was in flight
\* with it, and no request is left, result and error are exactly what this
\* last response alone produces, and loading is false.
LastResponseWins ==
    [][\A i \in 1..Len(inflight) :
          (/\ Len(inflight) = 1
           /\ ev \in {"bodySettled", "fetchRejected"}
           /\ BodySettled(i) \/ FetchRejected(i))
            => (/\ ~loading'
                /\ IF inflight[i].phase = "fetch"
                   THEN result' = JNull /\ error' # JNull
                   ELSE LET c == Outcome[inflight[i].res][platform]
                        IN  IF c.threw
                            THEN result' = JNull /\ error' = Surfaced(c.v)
                            ELSE result' = c.v /\ error' = JNull)]_vars

====
